---- MODULE Spec2Model ----
(***************************************************************************)
(* A model of the d8-lint orchestration core:                              *)
(*   - the Finding Set (LintRuleError / LintRuleErrorsList),               *)
(*   - Manager.Run, the bounded fan-out of (linter, module) tasks,         *)
(*   - probes.RunRender and its rendered-templates hash cache.             *)
(* Several state machines share the module: Spec (Manager.Run), SpecList   *)
(* and SpecMix (the Finding Set), SpecRender (RunRender), SpecDiscover     *)
(* (NewManager's module discovery) and SpecRegistry (getEnabledLinters).   *)
(* Each leaves the variables of the others untouched.                      *)
(***************************************************************************)
EXTENDS Integers, Sequences, FiniteSets, TLC

VARIABLES
    \* ---- Manager.Run
    variant,    \* which Run is modelled: "byLinter" (manager.go) or "byModule" (part_000)
    limit,      \* the value given to g.SetLimit
    mpc,        \* position of Manager.Run: "idle", "outer", "inner", "done"
    oi,         \* outer loop index (i)
    ij,         \* inner loop index (j): next g.Go to issue
    sem,        \* errgroup: goroutines holding a semaphore slot
    wg,         \* errgroup: goroutines Wait still waits for
    gerr,       \* errgroup: an error has been recorded in the current group
    sm,         \* sm[k]: holder of the mutex created in outer iteration k
    tpc,        \* tpc[t]: position of the goroutine of pair t
    ret,        \* ret[t]: what the linter's Run returned to pair t
    mread,      \* mread[t]: l.data as read by a Merge in progress
    result,     \* result.data, the aggregate
    calls,      \* calls[t]: number of times the linter's Run was entered for t
    returned,   \* the value Manager.Run returned
    \* ---- Finding Set
    lpc,        \* "idle", "build" (producers call Add), "merge", "done"
    sets,       \* sets[k]: data of producer list k
    acc,        \* data of the receiver list the producers are merged into
    mk,         \* number of producers merged into acc so far
    last,       \* the last call made on a list
    \* ---- RunRender
    rpc,        \* rpc[c]: position of call c
    rfiles,     \* rfiles[c]: the rendered content of call c
    rhash,      \* rhash[c]: its hash
    ridx,       \* rfiles position of the scanner
    rstore,     \* rstore[c]: keys held by the objectStore given to call c
    rerr,       \* rerr[c]: lintError
    rfirst,     \* rfirst[c]: the Load of call c missed (first-seen)
    cache,      \* renderedTemplatesHash
    \* ---- NewManager: module discovery
    dvariant,   \* which getModulePaths is modelled: "manager.go" or "part_000"
    fs,         \* the directory tree: what each path is and which entries it has
    dirs,       \* the search roots given to NewManager
    di,         \* index of the search root in hand
    dpaths,     \* paths
    dres,       \* dres[i]: what the loop got for dirs[i]
    dmodules,   \* m.Modules
    dpc,        \* "idle", "loop", "done"
    \* ---- NewManager: linter registry
    gcfg,       \* cfg.Linters: DisableAll, EnableAll, Enable, Disable
    glintersMap,\* m.lintersMap
    gset,       \* resultLintersSet when it is a map of its own
    galias,     \* resultLintersSet is m.lintersMap itself
    gidx,       \* position in the Enable or Disable list
    gout,       \* the names of the linters getEnabledLinters returned
    gpc         \* "idle", "switch", "enable", "disable", "collect", "done"

mvars == <<variant, limit, mpc, oi, ij, sem, wg, gerr, sm, tpc, ret, mread,
           result, calls, returned>>
lvars == <<lpc, sets, acc, mk, last>>
rvars == <<rpc, rfiles, rhash, ridx, rstore, rerr, rfirst, cache>>
dvars == <<dvariant, fs, dirs, di, dpaths, dres, dmodules, dpc>>
gvars == <<gcfg, glintersMap, gset, galias, gidx, gout, gpc>>
xvars == <<dvars, gvars>>
vars  == <<mvars, lvars, rvars, xvars>>

-----------------------------------------------------------------------------
(* Bounds *)

NumModules == 2     \* discovered modules
MaxLimit   == 2     \* largest flags.LintersLimit tried
MaxLen     == 2     \* longest producer list built by Add
NumCallers == 3     \* concurrent RunRender calls

(* modulesLimit of manager.go *)
modulesLimit == 10

-----------------------------------------------------------------------------
(* Finding and Finding Set *)

Nil == "nil"

Finding(id, text, obj, val) == [ID |-> id, Text |-> text, ObjectID |-> obj, Value |-> val]

EmptyRuleError == Finding("", "", "", Nil)

F1  == Finding("r1", "t1", "o1", Nil)
F1v == Finding("r1", "t1", "o1", "v1")   \* F1 with another Value
F2  == Finding("r1", "t1", "o2", Nil)    \* differs from F1 in ObjectID only
FO  == Finding("", "", "o1", Nil)        \* only ObjectID set
EV  == Finding("", "", "", "v1")         \* empty, with a Value

FP  == Finding("r2", "50%s", "o1", "v1")  \* its Text holds a formatting verb

Findings == {EmptyRuleError, EV, F1, F1v, F2, FO}

\* an equality that also compares Value
EqualsToWithValue(l, candidate) ==
    /\ l.ID = candidate.ID /\ l.Text = candidate.Text
    /\ l.ObjectID = candidate.ObjectID /\ l.Value = candidate.Value

EqualsTo(l, candidate) ==
    l.ID = candidate.ID /\ l.Text = candidate.Text /\ l.ObjectID = candidate.ObjectID

\* an emptiness test that also wants no Value
IsEmptyNoValue(l) == l.ID = "" /\ l.Text = "" /\ l.ObjectID = "" /\ l.Value = Nil

IsEmpty(l) == l.ID = "" /\ l.Text = "" /\ l.ObjectID = ""

\* slices.ContainsFunc(l.data, e.EqualsTo)
ContainsFunc(data, e) == \E n \in 1..Len(data) : EqualsTo(e, data[n])

Add(data, e) ==
    IF IsEmpty(e) THEN data
    ELSE IF ContainsFunc(data, e) THEN data
    ELSE Append(data, e)

RECURSIVE AddAll(_, _)
AddAll(data, es) == IF es = <<>> THEN data ELSE AddAll(Add(data, Head(es)), Tail(es))

\* Merge as its doc comment describes it: duplicates removed
MergeDedup(data, edata) == AddAll(data, edata)

Merge(data, edata) == data \o edata

\* color.New(color.FgRed).SprintfFunc()(err.Text): Text is the format and there
\* are no operands, so a verb in it is printed as missing
Sprintf(format) == IF format = "50%s" THEN "50%!s(MISSING)" ELSE format

\* One entry of the report: rule ID, message, object, and the value when set
ReportEntry(e) ==
    <<"[#", e.ID, "]", "Message", Sprintf(e.Text), "Object", e.ObjectID>>
        \o (IF e.Value # Nil THEN <<"Value", e.Value>> ELSE <<>>)

\* the nil error; a report is a non-empty sequence of entries
NilError == <<>>

\* a report of the last entry alone
ConvertToErrorLastOnly(data) ==
    IF Len(data) = 0 THEN NilError
    ELSE <<ReportEntry(data[Len(data)])>>

ConvertToError(data) ==
    IF Len(data) = 0 THEN NilError
    ELSE [n \in 1..Len(data) |-> ReportEntry(data[n])]

-----------------------------------------------------------------------------
(* Manager.Run *)

\* m.Linters after NewManager: linters of the catalog that are enabled
LinterList == <<"copyright", "probes">>

Tasks == (1..Len(LinterList)) \X (1..NumModules)   \* <<linter index, module index>>

NoTask == <<0, 0>>

\* What Linters[..].Run(Modules[..]) can return: (errs, err)
RunOutcomes ==
    { [err |-> FALSE, errs |-> <<>>],
      [err |-> FALSE, errs |-> <<F1>>],
      [err |-> FALSE, errs |-> <<F1, F2>>],
      [err |-> TRUE,  errs |-> <<F1>>] }

NoRet == [err |-> FALSE, errs |-> <<>>]

OuterLen == IF variant = "byLinter" THEN Len(LinterList) ELSE NumModules
InnerLen == IF variant = "byLinter" THEN NumModules ELSE Len(LinterList)

\* the closure reading the inner loop variable after the loop has moved on
PairShared(o, n) == IF variant = "byLinter" THEN <<o, InnerLen>> ELSE <<InnerLen, o>>

\* the pair run by the goroutine of outer iteration o, inner iteration n
Pair(o, n) == IF variant = "byLinter" THEN <<o, n>> ELSE <<n, o>>
GroupOf(t) == IF variant = "byLinter" THEN t[1] ELSE t[2]

MaxOuter == IF Len(LinterList) > NumModules THEN Len(LinterList) ELSE NumModules

DiscoveryIdle ==
    /\ dvariant = "none" /\ fs = <<>> /\ dirs = <<>> /\ di = 0
    /\ dpaths = <<>> /\ dres = <<>> /\ dmodules = <<>> /\ dpc = "idle"
RegistryIdle ==
    /\ gcfg = <<>> /\ glintersMap = {} /\ gset = {} /\ galias = FALSE
    /\ gidx = 0 /\ gout = {} /\ gpc = "idle"
NewManagerIdle == DiscoveryIdle /\ RegistryIdle
ListIdle ==
    /\ lpc = "idle" /\ sets = <<>> /\ acc = <<>> /\ mk = 0 /\ last = <<>>
RenderIdle ==
    /\ rpc = <<>> /\ rfiles = <<>> /\ rhash = <<>> /\ ridx = <<>>
    /\ rstore = <<>> /\ rerr = <<>> /\ rfirst = <<>> /\ cache = {}
ManagerIdle ==
    /\ variant = "none" /\ limit = 0 /\ mpc = "idle" /\ oi = 0 /\ ij = 0
    /\ sem = 0 /\ wg = 0 /\ gerr = FALSE /\ sm = <<>> /\ tpc = <<>>
    /\ ret = <<>> /\ mread = <<>> /\ result = <<>> /\ calls = <<>>
    /\ returned = <<>>

\* flags.LintersLimit: a configured, positive number of goroutines
LintersLimit == 1..MaxLimit

Init ==
    /\ variant \in {"byLinter", "byModule"}
    /\ limit \in (IF variant = "byLinter" THEN {modulesLimit} ELSE LintersLimit)
    /\ mpc = "outer" /\ oi = 1 /\ ij = 1
    /\ sem = 0 /\ wg = 0 /\ gerr = FALSE
    /\ sm = [k \in 1..MaxOuter |-> NoTask]
    /\ tpc = [t \in Tasks |-> "idle"]
    /\ ret = [t \in Tasks |-> NoRet]
    /\ mread = [t \in Tasks |-> <<>>]
    /\ result = <<>>
    /\ calls = [t \in Tasks |-> 0]
    /\ returned = <<>>
    /\ ListIdle /\ RenderIdle /\ NewManagerIdle

\* g.Go blocks while the group already runs `limit` goroutines
SemNoLimit == TRUE
SemAvailable == sem < limit

\* g.Wait returns when every goroutine of the group has returned
WaitNoWait == TRUE
WaitFirstError == wg = 0 \/ gerr
WaitDone == wg = 0

\* sm.Lock() can return
LockAlways(t) == TRUE
LockFree(t) == sm[GroupOf(t)] = NoTask

\* for i := range ...: var g errgroup.Group; g.SetLimit(..); sm := sync.Mutex{}
MainNewGroup ==
    /\ mpc = "outer" /\ oi <= OuterLen
    /\ mpc' = "inner" /\ ij' = 1
    /\ sem' = 0 /\ wg' = 0 /\ gerr' = FALSE
    /\ sm' = [sm EXCEPT ![oi] = NoTask]
    /\ UNCHANGED <<lvars, rvars, xvars, variant, limit, oi, tpc, ret, mread, result, calls, returned>>

\* g.Go(func() error {...}) for inner index ij
MainGo ==
    /\ mpc = "inner" /\ ij <= InnerLen
    /\ SemAvailable
    /\ sem' = sem + 1 /\ wg' = wg + 1
    /\ tpc' = [tpc EXCEPT ![Pair(oi, ij)] = "spawned"]
    /\ ij' = ij + 1
    /\ UNCHANGED <<lvars, rvars, xvars, variant, limit, mpc, oi, gerr, sm, ret, mread, result, calls, returned>>

\* _ = g.Wait()
MainWait ==
    /\ mpc = "inner" /\ ij > InnerLen
    /\ WaitDone
    /\ mpc' = "outer" /\ oi' = oi + 1
    /\ UNCHANGED <<lvars, rvars, xvars, variant, limit, ij, sem, wg, gerr, sm, tpc, ret, mread, result, calls, returned>>

\* return result
MainReturn ==
    /\ mpc = "outer" /\ oi > OuterLen
    /\ mpc' = "done" /\ returned' = result
    /\ UNCHANGED <<lvars, rvars, xvars, variant, limit, oi, ij, sem, wg, gerr, sm, tpc, ret, mread, result, calls>>

\* a variant of TaskRun that takes the mutex before the linter runs
TaskRunLocked(t) ==
    /\ tpc[t] = "spawned" /\ sm[GroupOf(t)] = NoTask
    /\ tpc' = [tpc EXCEPT ![t] = "running"]
    /\ sm' = [sm EXCEPT ![GroupOf(t)] = t]
    /\ calls' = [calls EXCEPT ![t] = @ + 1]
    /\ UNCHANGED <<lvars, rvars, xvars, variant, limit, mpc, oi, ij, sem, wg, gerr, ret, mread, result, returned>>

\* the goroutine enters m.Linters[..].Run(m.Modules[..])
TaskRun(t) ==
    /\ tpc[t] = "spawned"
    /\ tpc' = [tpc EXCEPT ![t] = "running"]
    /\ calls' = [calls EXCEPT ![t] = @ + 1]
    /\ UNCHANGED <<lvars, rvars, xvars, variant, limit, mpc, oi, ij, sem, wg, gerr, sm, ret, mread, result, returned>>

\* Run returns err != nil: log, return err; errgroup records it and releases the slot
TaskRunErr(t) ==
    /\ tpc[t] = "running"
    /\ \E out \in RunOutcomes :
          /\ out.err
          /\ ret' = [ret EXCEPT ![t] = out]
    /\ tpc' = [tpc EXCEPT ![t] = "done"]
    /\ gerr' = TRUE
    /\ sem' = sem - 1 /\ wg' = wg - 1
    /\ UNCHANGED <<lvars, rvars, xvars, variant, limit, mpc, oi, ij, sm, mread, result, calls, returned>>

\* Run returns err == nil
TaskRunOk(t) ==
    /\ tpc[t] = "running"
    /\ \E out \in RunOutcomes :
          /\ ~out.err
          /\ ret' = [ret EXCEPT ![t] = out]
    /\ tpc' = [tpc EXCEPT ![t] = "returned"]
    /\ UNCHANGED <<lvars, rvars, xvars, variant, limit, mpc, oi, ij, sem, wg, gerr, sm, mread, result, calls, returned>>

\* errs.ConvertToError() == nil: return nil
TaskSkipMerge(t) ==
    /\ tpc[t] = "returned"
    /\ ConvertToError(ret[t].errs) = NilError
    /\ tpc' = [tpc EXCEPT ![t] = "done"]
    /\ sem' = sem - 1 /\ wg' = wg - 1
    /\ UNCHANGED <<lvars, rvars, xvars, variant, limit, mpc, oi, ij, gerr, sm, ret, mread, result, calls, returned>>

\* errs.ConvertToError() != nil: sm.Lock()
TaskLock(t) ==
    /\ tpc[t] = "returned"
    /\ ConvertToError(ret[t].errs) # NilError
    /\ LockFree(t)
    /\ sm' = [sm EXCEPT ![GroupOf(t)] = t]
    /\ tpc' = [tpc EXCEPT ![t] = "merge"]
    /\ UNCHANGED <<lvars, rvars, xvars, variant, limit, mpc, oi, ij, sem, wg, gerr, ret, mread, result, calls, returned>>

\* result.Merge(errs): append reads l.data ...
TaskMergeRead(t) ==
    /\ tpc[t] = "merge"
    /\ mread' = [mread EXCEPT ![t] = result]
    /\ tpc' = [tpc EXCEPT ![t] = "merging"]
    /\ UNCHANGED <<lvars, rvars, xvars, variant, limit, mpc, oi, ij, sem, wg, gerr, sm, ret, result, calls, returned>>

\* ... and l.data is assigned the appended slice
TaskMergeWrite(t) ==
    /\ tpc[t] = "merging"
    /\ result' = Merge(mread[t], ret[t].errs)
    /\ mread' = [mread EXCEPT ![t] = <<>>]
    /\ tpc' = [tpc EXCEPT ![t] = "unlock"]
    /\ UNCHANGED <<lvars, rvars, xvars, variant, limit, mpc, oi, ij, sem, wg, gerr, sm, ret, calls, returned>>

\* sm.Unlock(); return nil
TaskUnlock(t) ==
    /\ tpc[t] = "unlock"
    /\ sm' = [sm EXCEPT ![GroupOf(t)] = NoTask]
    /\ tpc' = [tpc EXCEPT ![t] = "done"]
    /\ sem' = sem - 1 /\ wg' = wg - 1
    /\ UNCHANGED <<lvars, rvars, xvars, variant, limit, mpc, oi, ij, gerr, ret, mread, result, calls, returned>>

MainStep == MainNewGroup \/ MainGo \/ MainWait \/ MainReturn

TaskStep(t) ==
    \/ TaskRun(t) \/ TaskRunErr(t) \/ TaskRunOk(t) \/ TaskSkipMerge(t)
    \/ TaskLock(t) \/ TaskMergeRead(t) \/ TaskMergeWrite(t) \/ TaskUnlock(t)

Next ==
    \/ MainNewGroup \/ MainGo \/ MainWait \/ MainReturn
    \/ \E t \in Tasks :
          \/ TaskRun(t) \/ TaskRunErr(t) \/ TaskRunOk(t) \/ TaskSkipMerge(t)
          \/ TaskLock(t) \/ TaskMergeRead(t) \/ TaskMergeWrite(t) \/ TaskUnlock(t)

Spec == Init /\ [][Next]_vars

\* The Go scheduler runs every runnable goroutine, and each linter Run returns
FairSpec ==
    /\ Init /\ [][Next]_vars
    /\ WF_vars(MainStep)
    /\ \A t \in Tasks : WF_vars(TaskStep(t))

-----------------------------------------------------------------------------
(* Manager.Run: properties *)

Running == {t \in Tasks : tpc[t] = "running"}
InMerge == {t \in Tasks : tpc[t] \in {"merge", "merging"}}

\* pairs whose Run returned no error and a non-empty list
Contributors(S) == {t \in S : ~ret[t].err /\ ret[t].errs # <<>>}
Failed == {t \in Tasks : ret[t].err}

Occurs(e, data) == \E n \in 1..Len(data) : data[n] = e

NoDuplicates(data) ==
    \A a, b \in 1..Len(data) : a # b => ~EqualsTo(data[a], data[b])

\* seq is the concatenation, in some order, of the lists returned to the pairs of S
RECURSIVE ExistsOrder(_, _)
ExistsOrder(S, seq) ==
    IF S = {} THEN seq = <<>>
    ELSE \E t \in S :
            LET b == ret[t].errs IN
            /\ Len(b) <= Len(seq)
            /\ SubSeq(seq, 1, Len(b)) = b
            /\ ExistsOrder(S \ {t}, SubSeq(seq, Len(b) + 1, Len(seq)))

\* C2: the aggregate returned by Manager.Run never holds two Findings with
\* equal ID, Text and ObjectID.
C2_NoDuplicatesInAggregate == mpc = "done" => NoDuplicates(returned)

\* C3: at every moment the number of linter Run invocations that have started
\* and not returned is at most the limit given to the errgroup.
C3_RunsWithinLimit == Cardinality(Running) <= limit

\* as many Runs in progress as the limit allows, and a g.Go held back by it
C3_Witness ==
    /\ Cardinality(Running) = limit
    /\ mpc = "inner" /\ ij <= InnerLen /\ ~SemAvailable

\* C4: when some pair's Run returned an error, Manager.Run has still invoked
\* every pair, and every Finding returned to a pair without error is in the
\* aggregate it returns.
C4_FaultIsolation ==
    (mpc = "done" /\ Failed # {}) =>
        \A u \in Tasks :
            /\ calls[u] = 1
            /\ ~ret[u].err =>
                  \A n \in 1..Len(ret[u].errs) : Occurs(ret[u].errs[n], returned)

\* a pair failed, and pairs of its own group and of a later group contributed
C4_Witness ==
    /\ mpc = "done"
    /\ \E t \in Failed, u, w \in Contributors(Tasks) :
          /\ GroupOf(u) = GroupOf(t)
          /\ GroupOf(w) > GroupOf(t)
          /\ Occurs(ret[u].errs[1], returned)
          /\ Occurs(ret[w].errs[1], returned)

C5_Safety ==
    /\ \A t \in Tasks : calls[t] <= 1
    /\ mpc = "done" => \A t \in Tasks : calls[t] = 1 /\ tpc[t] = "done"

\* C5: Run enters the linter's Run exactly once for every (linter, module)
\* pair, returns only after each of them has returned, and, every linter Run
\* returning, does return.
C5_EveryPairOnceThenReturn == []C5_Safety /\ <>(mpc = "done")

\* Run has returned after pairs that failed, that merged and that had nothing to merge
C5_Witness ==
    /\ mpc = "done"
    /\ Failed # {} /\ Contributors(Tasks) # {}
    /\ \E t \in Tasks : ~ret[t].err /\ ret[t].errs = <<>>
    /\ \A t \in Tasks : calls[t] = 1

C7_MergeMutualExclusion == Cardinality(InMerge) <= 1

\* under the mutex of a later outer iteration, one pair merges while another
\* of its group waits in sm.Lock
C7_Witness ==
    \E t, u \in Tasks :
        /\ t # u /\ GroupOf(t) = GroupOf(u) /\ GroupOf(t) > 1
        /\ tpc[t] = "merging"
        /\ tpc[u] = "returned" /\ ret[u].errs # <<>>

\* C8: the mutex is held only by a pair that is between sm.Lock and sm.Unlock,
\* never by one whose linter runs; a pair that is to enter or to leave its
\* linter's Run can do so whoever holds or awaits the mutex.
C8_LockOnlyAroundMerge ==
    /\ \A k \in 1..MaxOuter :
          sm[k] # NoTask => tpc[sm[k]] \in {"merge", "merging", "unlock"}
    /\ \A t \in Tasks :
          /\ tpc[t] = "spawned" => ENABLED TaskRun(t)
          /\ tpc[t] = "running" => ENABLED TaskRunOk(t)

\* with a limit of two or more, two Runs are in progress at the same time
C8_Witness ==
    /\ limit >= 2
    /\ \E t, u \in Running : t # u

-----------------------------------------------------------------------------
(* The Finding Set on its own: three producer lists are built by Add, as a   *)
(* linter builds the list it returns, then merged in order into a new list. *)

Producers == {"A", "B", "C"}
MergeOrder == <<"A", "B", "C">>

InitList ==
    /\ lpc = "build"
    /\ sets = [k \in Producers |-> <<>>]
    /\ acc = <<>> /\ mk = 0 /\ last = <<>>
    /\ ManagerIdle /\ RenderIdle /\ NewManagerIdle

\* sets[k].Add(e)
ListAdd(k, e) ==
    /\ lpc = "build"
    /\ Len(Add(sets[k], e)) <= MaxLen
    /\ sets' = [sets EXCEPT ![k] = Add(@, e)]
    /\ last' = <<"Add", k, e>>
    /\ UNCHANGED <<lpc, acc, mk, mvars, rvars, xvars>>

\* result := LintRuleErrorsList{}: the producers are finished
ListNewResult ==
    /\ lpc = "build"
    /\ lpc' = "merge" /\ acc' = <<>> /\ mk' = 0
    /\ last' = <<"New">>
    /\ UNCHANGED <<sets, mvars, rvars, xvars>>

\* result.Merge(sets[k]) for the next producer k: the argument is passed by value
ListMerge ==
    /\ lpc = "merge" /\ mk < Len(MergeOrder)
    /\ acc' = Merge(acc, sets[MergeOrder[mk + 1]])
    /\ mk' = mk + 1
    /\ last' = <<"Merge", MergeOrder[mk + 1]>>
    /\ UNCHANGED <<lpc, sets, mvars, rvars, xvars>>

NextList ==
    \/ \E k \in Producers, e \in Findings : ListAdd(k, e)
    \/ ListNewResult
    \/ ListMerge

SpecList == InitList /\ [][NextList]_vars

\* an entry with the ID, Text and ObjectID of e is stored in data
KeyStored(data, e) ==
    \E n \in 1..Len(data) :
        /\ data[n].ID = e.ID /\ data[n].Text = e.Text /\ data[n].ObjectID = e.ObjectID

HasKey(e) == e.ID # "" \/ e.Text # "" \/ e.ObjectID # ""

RECURSIVE ConcatFirst(_)
ConcatFirst(n) ==
    IF n = 0 THEN <<>> ELSE ConcatFirst(n - 1) \o sets[MergeOrder[n]]

\* C9: a list built from empty by Add calls alone never holds two entries of
\* equal ID, Text and ObjectID; Add of a Finding whose ID, Text and ObjectID
\* are those of a stored entry leaves the list as it is, the stored Value
\* included; Add of a non-empty Finding that equals no stored entry appends it
\* at the end.
C9_AddDeduplicatesOnKey ==
    /\ [](lpc = "build" => \A k \in Producers : NoDuplicates(sets[k]))
    /\ [][\A k \in Producers, e \in Findings :
            (lpc = "build" /\ last' = <<"Add", k, e>> /\ HasKey(e)) =>
                IF KeyStored(sets[k], e)
                THEN sets'[k] = sets[k]
                ELSE sets'[k] = Append(sets[k], e)]_vars

\* the last Add gave a Finding equal to a stored one but for its Value, and
\* the list, of two entries, still holds the stored Value
C9_Witness ==
    /\ lpc = "build" /\ Len(last) = 3
    /\ LET data == sets[last[2]] IN
       /\ Len(data) = 2
       /\ \E n \in 1..Len(data) :
             EqualsTo(data[n], last[3]) /\ data[n].Value # last[3].Value

-----------------------------------------------------------------------------
(* probes.RunRender, called concurrently by the goroutines of Manager.Run *)

Callers == 1..NumCallers

Obj(key) == [kind |-> "obj", key |-> key]
EmptyDoc == [kind |-> "empty", key |-> ""]     \* a document that unmarshals to an empty node
BadDoc   == [kind |-> "bad", key |-> ""]       \* a document yaml.Unmarshal rejects

\* What the renderer can produce, as the documents the scanner finds in it
Rendered == {"clean", "badyaml", "twice"}

Docs(files) ==
    CASE files = "clean"   -> <<Obj("k1"), EmptyDoc, Obj("k2")>>
      [] files = "badyaml" -> <<Obj("k1"), BadDoc>>
      [] files = "twice"   -> <<Obj("k1"), Obj("k1")>>
      [] OTHER             -> <<>>

\* hashstructure.Hash(files, FormatV2, nil): a function of the content
Hash(files) == <<"hash", files>>

NoFiles == "none"
NoHash == <<"hash", NoFiles>>

InitRender ==
    /\ rpc = [c \in Callers |-> "start"]
    /\ rfiles = [c \in Callers |-> NoFiles]
    /\ rhash = [c \in Callers |-> NoHash]
    /\ ridx = [c \in Callers |-> 0]
    /\ rstore = [c \in Callers |-> {}]
    /\ rerr = [c \in Callers |-> Nil]
    /\ rfirst = [c \in Callers |-> FALSE]
    /\ cache = {}
    /\ ManagerIdle /\ ListIdle /\ NewManagerIdle

\* files, err := renderer.RenderChartFromRawValues(m.Chart, values), err == nil
RenderOk(c) ==
    /\ rpc[c] = "start"
    /\ \E f \in Rendered : rfiles' = [rfiles EXCEPT ![c] = f]
    /\ rpc' = [rpc EXCEPT ![c] = "hash"]
    /\ UNCHANGED <<rhash, ridx, rstore, rerr, rfirst, cache, mvars, lvars, xvars>>

\* err != nil: lintError = "helm chart render: ..."; return
RenderFail(c) ==
    /\ rpc[c] = "start"
    /\ rerr' = [rerr EXCEPT ![c] = "helm chart render"]
    /\ rpc' = [rpc EXCEPT ![c] = "done"]
    /\ UNCHANGED <<rfiles, rhash, ridx, rstore, rfirst, cache, mvars, lvars, xvars>>

\* hash, err := hashstructure.Hash(files, ...), err == nil
HashOk(c) ==
    /\ rpc[c] = "hash"
    /\ rhash' = [rhash EXCEPT ![c] = Hash(rfiles[c])]
    /\ rpc' = [rpc EXCEPT ![c] = "load"]
    /\ UNCHANGED <<rfiles, ridx, rstore, rerr, rfirst, cache, mvars, lvars, xvars>>

\* err != nil: lintError = "helm chart render: ..."; return
HashFail(c) ==
    /\ rpc[c] = "hash"
    /\ rerr' = [rerr EXCEPT ![c] = "helm chart render"]
    /\ rpc' = [rpc EXCEPT ![c] = "done"]
    /\ UNCHANGED <<rfiles, rhash, ridx, rstore, rfirst, cache, mvars, lvars, xvars>>

\* renderedTemplatesHash.Load(hash) finds the hash: return
LoadHit(c) ==
    /\ rpc[c] = "load"
    /\ rhash[c] \in cache
    /\ rpc' = [rpc EXCEPT ![c] = "done"]
    /\ UNCHANGED <<rfiles, rhash, ridx, rstore, rerr, rfirst, cache, mvars, lvars, xvars>>

\* Load misses: defer renderedTemplatesHash.Store(hash, ...), go on to the documents
LoadMiss(c) ==
    /\ rpc[c] = "load"
    /\ rhash[c] \notin cache
    /\ rfirst' = [rfirst EXCEPT ![c] = TRUE]
    /\ ridx' = [ridx EXCEPT ![c] = 1]
    /\ rpc' = [rpc EXCEPT ![c] = "scan"]
    /\ UNCHANGED <<rfiles, rhash, rstore, rerr, cache, mvars, lvars, xvars>>

Doc(c) == Docs(rfiles[c])[ridx[c]]
MoreDocs(c) == rpc[c] = "scan" /\ ridx[c] <= Len(Docs(rfiles[c]))

\* yaml.Unmarshal fails: return the manifest error (the deferred Store follows)
ScanBad(c) ==
    /\ MoreDocs(c) /\ Doc(c).kind = "bad"
    /\ rerr' = [rerr EXCEPT ![c] = "manifest unmarshal"]
    /\ rpc' = [rpc EXCEPT ![c] = "defer"]
    /\ UNCHANGED <<rfiles, rhash, ridx, rstore, rfirst, cache, mvars, lvars, xvars>>

\* len(node) == 0: continue
ScanEmpty(c) ==
    /\ MoreDocs(c) /\ Doc(c).kind = "empty"
    /\ ridx' = [ridx EXCEPT ![c] = @ + 1]
    /\ UNCHANGED <<rpc, rfiles, rhash, rstore, rerr, rfirst, cache, mvars, lvars, xvars>>

\* objectStore.Put(path, node, docBytes) fails when the object is already stored
PutFails(store, doc) == doc.key \in store

\* objectStore.Put succeeds
ScanPut(c) ==
    /\ MoreDocs(c) /\ Doc(c).kind = "obj"
    /\ ~PutFails(rstore[c], Doc(c))
    /\ rstore' = [rstore EXCEPT ![c] = @ \cup {Doc(c).key}]
    /\ ridx' = [ridx EXCEPT ![c] = @ + 1]
    /\ UNCHANGED <<rpc, rfiles, rhash, rerr, rfirst, cache, mvars, lvars, xvars>>

\* objectStore.Put fails: return "helm chart object already exists"
ScanPutFail(c) ==
    /\ MoreDocs(c) /\ Doc(c).kind = "obj"
    /\ PutFails(rstore[c], Doc(c))
    /\ rerr' = [rerr EXCEPT ![c] = "helm chart object already exists"]
    /\ rpc' = [rpc EXCEPT ![c] = "defer"]
    /\ UNCHANGED <<rfiles, rhash, ridx, rstore, rfirst, cache, mvars, lvars, xvars>>

\* the loops are over: return
ScanEnd(c) ==
    /\ rpc[c] = "scan" /\ ridx[c] > Len(Docs(rfiles[c]))
    /\ rpc' = [rpc EXCEPT ![c] = "defer"]
    /\ UNCHANGED <<rfiles, rhash, ridx, rstore, rerr, rfirst, cache, mvars, lvars, xvars>>

\* a Store that runs only on the return without error
DeferStoreOnSuccess(c) ==
    /\ rpc[c] = "defer"
    /\ cache' = IF rerr[c] = Nil THEN cache \cup {rhash[c]} ELSE cache
    /\ rpc' = [rpc EXCEPT ![c] = "done"]
    /\ UNCHANGED <<rfiles, rhash, ridx, rstore, rerr, rfirst, mvars, lvars, xvars>>

\* the deferred renderedTemplatesHash.Store(hash, struct{}{})
DeferStore(c) ==
    /\ rpc[c] = "defer"
    /\ cache' = cache \cup {rhash[c]}
    /\ rpc' = [rpc EXCEPT ![c] = "done"]
    /\ UNCHANGED <<rfiles, rhash, ridx, rstore, rerr, rfirst, mvars, lvars, xvars>>

NextRender ==
    \E c \in Callers :
        \/ RenderOk(c) \/ RenderFail(c) \/ HashOk(c) \/ HashFail(c)
        \/ LoadHit(c) \/ LoadMiss(c)
        \/ ScanBad(c) \/ ScanEmpty(c) \/ ScanPut(c) \/ ScanPutFail(c) \/ ScanEnd(c)
        \/ DeferStore(c)

SpecRender == InitRender /\ [][NextRender]_vars

\* C1: among the RunRender calls that rendered content of one hash, at most
\* one finds the hash missing and goes on to parse and store the documents.
C1_OneFirstSeenPerHash ==
    \A c, d \in Callers :
        (c # d /\ rfirst[c] /\ rfirst[d]) => rhash[c] # rhash[d]

-----------------------------------------------------------------------------
(* The Finding Set under any sequence of calls: two lists, each the target  *)
(* of Add, of Merge with the other list or with itself, and of             *)
(* ConvertToError.                                                          *)

Lists == {"X", "Y"}

MixFindings == {EmptyRuleError, EV, F1, F1v, FO, FP}

InitMix ==
    /\ lpc = "mix"
    /\ sets = [k \in Lists |-> <<>>]
    /\ acc = <<>> /\ mk = 0 /\ last = <<>>
    /\ ManagerIdle /\ RenderIdle /\ NewManagerIdle

\* sets[k].Add(e)
MixAdd(k, e) ==
    /\ lpc = "mix"
    /\ Len(Add(sets[k], e)) <= MaxLen
    /\ sets' = [sets EXCEPT ![k] = Add(@, e)]
    /\ last' = <<"Add", k, e>>
    /\ UNCHANGED <<lpc, acc, mk, mvars, rvars, xvars>>

\* sets[k].Merge(sets[j])
MixMerge(k, j) ==
    /\ lpc = "mix"
    /\ Len(Merge(sets[k], sets[j])) <= MaxLen
    /\ sets' = [sets EXCEPT ![k] = Merge(@, sets[j])]
    /\ last' = <<"Merge", k, j>>
    /\ UNCHANGED <<lpc, acc, mk, mvars, rvars, xvars>>

\* sets[k].ConvertToError(): last keeps what it returned
MixConvert(k) ==
    /\ lpc = "mix"
    /\ last' = <<"ConvertToError", k, ConvertToError(sets[k])>>
    /\ UNCHANGED <<lpc, sets, acc, mk, mvars, rvars, xvars>>

NextMix ==
    \/ \E k \in Lists, e \in MixFindings : MixAdd(k, e)
    \/ \E k, j \in Lists : MixMerge(k, j)
    \/ \E k \in Lists : MixConvert(k)

SpecMix == InitMix /\ [][NextMix]_vars

LastIs(op) == Len(last) > 0 /\ last[1] = op

NoKey(e) == e.ID = "" /\ e.Text = "" /\ e.ObjectID = ""

\* C11: no list reached from empty lists by Add and Merge calls holds an entry
\* whose ID, Text and ObjectID are all empty, and Add of such a Finding,
\* whatever its Value, leaves the list as it was.
C11_EmptyNeverStored ==
    /\ [](lpc = "mix" =>
            \A k \in Lists : \A n \in 1..Len(sets[k]) : ~NoKey(sets[k][n]))
    /\ [][\A k \in Lists, e \in MixFindings :
            (lpc = "mix" /\ last' = <<"Add", k, e>> /\ NoKey(e)) => sets' = sets]_vars

\* an empty Finding that carries a Value was just given to Add on a list that
\* Merge had filled (it holds an entry twice)
C11_Witness ==
    /\ lpc = "mix" /\ LastIs("Add")
    /\ NoKey(last[3]) /\ last[3].Value # Nil
    /\ ~NoDuplicates(sets[last[2]])

Elems(seq) == {seq[n] : n \in 1..Len(seq)}

\* the report entry re stands for the list entry e
EntryCovers(re, e) ==
    /\ e.ID \in Elems(re) /\ e.ObjectID \in Elems(re)
    /\ e.Value # Nil => e.Value \in Elems(re)
    /\ Sprintf(e.Text) = e.Text => e.Text \in Elems(re)

-----------------------------------------------------------------------------
(* NewManager, module discovery: the loop over the search roots and        *)
(* getModulePaths, a filepath.Walk of one search root.  The source holds   *)
(* two getModulePaths; dvariant says which one a behaviour runs.           *)

MaxDepth == 2     \* directory levels below the top directory
NumRoots == 3     \* search roots given to NewManager

ChartConfigFilename == "Chart.yaml"
ModuleYamlFilename  == "module.yaml"
HooksDir            == "hooks"
ImagesDir           == "images"

\* The paths of the tree: r, r/a, r/a/a, ... and r/b.  "~" is a search root
\* homedir.Expand cannot expand.
Chain(n) == [i \in 1..n |-> IF i = 1 THEN "r" ELSE "a"]
Top   == Chain(1)
Side  == <<"r", "b">>
Tilde == <<"~">>
Paths == {Chain(n) : n \in 1..(MaxDepth + 1)} \cup {Side}
Parent(p) == SubSeq(p, 1, Len(p) - 1)

\* What a path is: nothing, a regular file, something lstat or the directory
\* read fails on, or a directory holding the entries of has (a hooks or images
\* entry is an empty directory)
Absent     == [kind |-> "absent", has |-> {}]
File       == [kind |-> "file", has |-> {}]
Unreadable == [kind |-> "err", has |-> {}]
DirWith(S) == [kind |-> "dir", has |-> S]
DirKinds   == {DirWith({}), DirWith({ChartConfigFilename}),
               DirWith({ChartConfigFilename, HooksDir}),
               DirWith({ModuleYamlFilename})}
NodeKinds  == {Absent, File, Unreadable} \cup DirKinds
TopKinds   == {DirWith({}), DirWith({ChartConfigFilename, HooksDir})}
SideKinds  == {Absent, Unreadable, DirWith({ChartConfigFilename, HooksDir})}

TreeOK(f) ==
    /\ f[Top] \in TopKinds
    /\ f[Side] \in SideKinds
    /\ \A p \in Paths \ {Top} : f[Parent(p)].kind # "dir" => f[p] = Absent
Trees == {f \in [Paths -> NodeKinds] : TreeOK(f)}

SearchRoots == {Top, Chain(2), Tilde}

IsDir(p) == fs[p].kind = "dir"

isExistsOnFilesystem(p, name) == IsDir(p) /\ name \in fs[p].has

\* readDirNames: the entries of a directory that filepath.Walk visits, sorted
Present(q) == fs[q] # Absent
Kids(p) ==
    IF p = Top THEN SelectSeq(<<Chain(2), Side>>, Present)
    ELSE IF p = Chain(Len(p)) /\ Len(p) <= MaxDepth
         THEN SelectSeq(<<Chain(Len(p) + 1)>>, Present)
         ELSE <<>>

\* the directory is recorded as a module
IsModuleDir(v, p) ==
    IF v = "manager.go" THEN isExistsOnFilesystem(p, ChartConfigFilename)
    ELSE \/ isExistsOnFilesystem(p, ModuleYamlFilename)
         \/ /\ isExistsOnFilesystem(p, ChartConfigFilename)
            /\ \/ isExistsOnFilesystem(p, HooksDir)
               \/ isExistsOnFilesystem(p, ImagesDir)

\* a walk function that skips a directory only when it is recorded
WalkFnDescend(v, modulesDir, p) ==
    IF fs[p].kind \in {"err", "absent"}
    THEN [ret |-> "file access", at |-> p, add |-> FALSE]
    ELSE IF ~IsDir(p) \/ (v = "manager.go" /\ p = modulesDir)
    THEN [ret |-> "nil", at |-> <<>>, add |-> FALSE]
    ELSE [ret |-> IF v = "manager.go" /\ IsModuleDir(v, p) THEN "SkipDir" ELSE "nil",
          at |-> <<>>, add |-> IsModuleDir(v, p)]

\* The function given to filepath.Walk: what it returns for path p and
\* whether it appends p to chartDirs
WalkFn(v, modulesDir, p) ==
    IF fs[p].kind \in {"err", "absent"}
    THEN [ret |-> "file access", at |-> p, add |-> FALSE]
    ELSE IF ~IsDir(p)
    THEN [ret |-> "nil", at |-> <<>>, add |-> FALSE]
    ELSE IF v = "manager.go"
    THEN IF p = modulesDir
         THEN [ret |-> "nil", at |-> <<>>, add |-> FALSE]
         ELSE [ret |-> "SkipDir", at |-> <<>>, add |-> IsModuleDir(v, p)]
    ELSE [ret |-> "nil", at |-> <<>>, add |-> IsModuleDir(v, p)]

RECURSIVE Walk(_, _, _), WalkNames(_, _, _, _)

\* filepath.Walk below p: the function is called on p first; an error ends
\* the walk, SkipDir on a directory skips its entries only
Walk(v, modulesDir, p) ==
    LET f   == WalkFn(v, modulesDir, p)
        own == IF f.add THEN <<p>> ELSE <<>>
    IN  IF ~IsDir(p) \/ f.ret # "nil"
        THEN [paths |-> own, ret |-> f.ret, at |-> f.at]
        ELSE WalkNames(v, modulesDir, Kids(p), own)

WalkNames(v, modulesDir, names, found) ==
    IF names = <<>> THEN [paths |-> found, ret |-> "nil", at |-> <<>>]
    ELSE LET w == Walk(v, modulesDir, Head(names))
         IN  IF w.ret = "file access"
             THEN [paths |-> found \o w.paths, ret |-> w.ret, at |-> w.at]
             ELSE WalkNames(v, modulesDir, Tail(names), found \o w.paths)

NoErr == <<>>

\* a getModulePaths that returns what it found before the error
GetModulePathsPartial(v, modulesDir) ==
    LET w == Walk(v, modulesDir, modulesDir)
    IN  IF w.ret = "file access"
        THEN [paths |-> w.paths, err |-> <<"file access", w.at>>]
        ELSE [paths |-> w.paths, err |-> NoErr]

GetModulePaths(v, modulesDir) ==
    LET w == Walk(v, modulesDir, modulesDir)
    IN  IF w.ret = "file access"
        THEN [paths |-> <<>>, err |-> <<"file access", w.at>>]
        ELSE [paths |-> w.paths, err |-> NoErr]

\* homedir.Expand fails
ExpandFails(dir) == dir = Tilde

InitDiscover ==
    /\ dvariant \in {"manager.go", "part_000"}
    /\ fs \in Trees
    /\ dirs \in [1..NumRoots -> SearchRoots]
    /\ di = 1 /\ dpaths = <<>> /\ dres = <<>> /\ dmodules = <<>>
    /\ dpc = "loop"
    /\ RegistryIdle /\ ManagerIdle /\ ListIdle /\ RenderIdle

\* homedir.Expand fails: logged, the loop goes on with the next root
DirExpandFail ==
    /\ dpc = "loop" /\ di <= Len(dirs)
    /\ ExpandFails(dirs[di])
    /\ dres' = Append(dres, [paths |-> <<>>, err |-> <<"expand">>])
    /\ di' = di + 1
    /\ UNCHANGED <<dvariant, fs, dirs, dpaths, dmodules, dpc, gvars, mvars, lvars, rvars>>

\* getModulePaths returns paths
DirPaths ==
    /\ dpc = "loop" /\ di <= Len(dirs)
    /\ ~ExpandFails(dirs[di])
    /\ LET r == GetModulePaths(dvariant, dirs[di])
       IN  /\ r.err = NoErr
           /\ dpaths' = dpaths \o r.paths
           /\ dres' = Append(dres, r)
    /\ di' = di + 1
    /\ UNCHANGED <<dvariant, fs, dirs, dmodules, dpc, gvars, mvars, lvars, rvars>>

\* getModulePaths returns an error: logged, its result is appended all the same
DirPathsErr ==
    /\ dpc = "loop" /\ di <= Len(dirs)
    /\ ~ExpandFails(dirs[di])
    /\ LET r == GetModulePaths(dvariant, dirs[di])
       IN  /\ r.err # NoErr
           /\ dpaths' = dpaths \o r.paths
           /\ dres' = Append(dres, r)
    /\ di' = di + 1
    /\ UNCHANGED <<dvariant, fs, dirs, dmodules, dpc, gvars, mvars, lvars, rvars>>

\* one module.NewModule per path
BuildModules ==
    /\ dpc = "loop" /\ di > Len(dirs)
    /\ dmodules' = dpaths
    /\ dpc' = "done"
    /\ UNCHANGED <<dvariant, fs, dirs, di, dpaths, dres, gvars, mvars, lvars, rvars>>

NextDiscover ==
    \/ DirExpandFail
    \/ DirPaths
    \/ DirPathsErr
    \/ BuildModules

SpecDiscover == InitDiscover /\ [][NextDiscover]_vars

ProperPrefix(p, q) == Len(p) < Len(q) /\ SubSeq(q, 1, Len(p)) = p

\* dres[i] is what getModulePaths returned without error for dirs[i]
Walked(i) == i \in 1..Len(dres) /\ dres[i].err = NoErr

HasChart(p) == fs[p].kind = "dir" /\ ChartConfigFilename \in fs[p].has

\* C13: whatever the tree, getModulePaths(root) does not return root itself.
C13_RootNeverReported ==
    \A i \in 1..Len(dres) : dirs[i] \notin Elems(dres[i].paths)

\* C14: whatever the tree, no path getModulePaths returns lies below another
\* path it returns.
C14_StopsAtModuleBoundary ==
    \A i \in 1..Len(dres) :
        \A p, q \in Elems(dres[i].paths) : ~ProperPrefix(p, q)

C16_DiscoveryErrorIsolation ==
    /\ \A i \in 1..Len(dres) :
          (dres[i].err # NoErr /\ dres[i].err[1] = "file access") =>
              /\ dres[i].paths = <<>>
              /\ LET at == dres[i].err[2]
                 IN  /\ at = dirs[i] \/ ProperPrefix(dirs[i], at)
                     /\ fs[at].kind \in {"err", "absent"}
    /\ dpc = "done" =>
          /\ Len(dres) = Len(dirs)
          /\ \A i \in 1..Len(dres) : Walked(i) =>
                Elems(dres[i].paths) \subseteq Elems(dmodules)

\* a root whose walk failed between two roots that gave a module each
C16_Witness ==
    /\ dpc = "done"
    /\ \E i, j, k \in 1..Len(dres) :
        /\ i < j /\ j < k
        /\ Walked(i) /\ Len(dres[i].paths) > 0
        /\ dres[j].err # NoErr /\ dres[j].err[1] = "file access"
        /\ fs[Chain(2)].kind = "dir"
        /\ Walked(k) /\ Len(dres[k].paths) > 0
        /\ Elems(dres[i].paths) \cup Elems(dres[k].paths) \subseteq Elems(dmodules)

-----------------------------------------------------------------------------
(* NewManager, linter registry: m.lintersMap and getEnabledLinters.  A map *)
(* from key to linter is given by its set of keys: the linter stored under *)
(* a key is always the catalog's linter of that key.                       *)

MaxNames == 2     \* longest Enable or Disable list

\* the linters NewManager creates, by Name()
LinterNames == {"openapi", "no-cyrillic", "copyright", "probes"}

\* names a configuration may hold
Names == {"copyright", "Copyright", "probes", "nosuch"}

\* strings.ToLower on the names in use
ToLower(name) == IF name = "Copyright" THEN "copyright" ELSE name

NameLists == UNION {[1..n -> Names] : n \in 0..MaxNames}

Configs == [DisableAll : BOOLEAN, EnableAll : BOOLEAN,
            Enable : NameLists, Disable : NameLists]

\* a switch that tests EnableAll first
SwitchCaseEnableAllFirst(cfg) ==
    IF cfg.EnableAll THEN "EnableAll"
    ELSE IF cfg.DisableAll THEN "DisableAll" ELSE "default"

\* the case the switch of getEnabledLinters takes
SwitchCase(cfg) ==
    IF cfg.DisableAll THEN "DisableAll"
    ELSE IF cfg.EnableAll THEN "EnableAll" ELSE "default"

\* resultLintersSet
ResultLintersSet == IF galias THEN glintersMap ELSE gset

\* m.lintersMap filled, getEnabledLinters entered
InitRegistry ==
    /\ gcfg \in Configs
    /\ glintersMap = {ToLower(n) : n \in LinterNames}
    /\ gset = {} /\ galias = FALSE
    /\ gidx = 0 /\ gout = {} /\ gpc = "switch"
    /\ DiscoveryIdle /\ ManagerIdle /\ ListIdle /\ RenderIdle

\* case DisableAll: resultLintersSet stays the new, empty map
SwitchDisableAll ==
    /\ gpc = "switch" /\ SwitchCase(gcfg) = "DisableAll"
    /\ gpc' = "enable" /\ gidx' = 1
    /\ UNCHANGED <<gcfg, glintersMap, gset, galias, gout, dvars, mvars, lvars, rvars>>

\* case EnableAll: resultLintersSet = m.lintersMap
SwitchEnableAll ==
    /\ gpc = "switch" /\ SwitchCase(gcfg) = "EnableAll"
    /\ galias' = TRUE
    /\ gpc' = "enable" /\ gidx' = 1
    /\ UNCHANGED <<gcfg, glintersMap, gset, gout, dvars, mvars, lvars, rvars>>

\* default: resultLintersSet = m.lintersMap
SwitchDefault ==
    /\ gpc = "switch" /\ SwitchCase(gcfg) = "default"
    /\ galias' = TRUE
    /\ gpc' = "enable" /\ gidx' = 1
    /\ UNCHANGED <<gcfg, glintersMap, gset, gout, dvars, mvars, lvars, rvars>>

\* Enable entry not in the catalog: continue
EnableSkip ==
    /\ gpc = "enable" /\ gidx <= Len(gcfg.Enable)
    /\ ToLower(gcfg.Enable[gidx]) \notin glintersMap
    /\ gidx' = gidx + 1
    /\ UNCHANGED <<gcfg, glintersMap, gset, galias, gout, gpc, dvars, mvars, lvars, rvars>>

\* resultLintersSet[name] = m.lintersMap[name]
EnableAdd ==
    /\ gpc = "enable" /\ gidx <= Len(gcfg.Enable)
    /\ LET name == ToLower(gcfg.Enable[gidx])
       IN  /\ name \in glintersMap
           /\ IF galias
              THEN glintersMap' = glintersMap \cup {name} /\ gset' = gset
              ELSE gset' = gset \cup {name} /\ glintersMap' = glintersMap
    /\ gidx' = gidx + 1
    /\ UNCHANGED <<gcfg, galias, gout, gpc, dvars, mvars, lvars, rvars>>

EnableEnd ==
    /\ gpc = "enable" /\ gidx > Len(gcfg.Enable)
    /\ gpc' = "disable" /\ gidx' = 1
    /\ UNCHANGED <<gcfg, glintersMap, gset, galias, gout, dvars, mvars, lvars, rvars>>

\* Disable entry, as written, not a key of m.lintersMap: continue
DisableSkip ==
    /\ gpc = "disable" /\ gidx <= Len(gcfg.Disable)
    /\ gcfg.Disable[gidx] \notin glintersMap
    /\ gidx' = gidx + 1
    /\ UNCHANGED <<gcfg, glintersMap, gset, galias, gout, gpc, dvars, mvars, lvars, rvars>>

\* delete(resultLintersSet, name)
DisableDelete ==
    /\ gpc = "disable" /\ gidx <= Len(gcfg.Disable)
    /\ LET name == gcfg.Disable[gidx]
       IN  /\ name \in glintersMap
           /\ IF galias
              THEN glintersMap' = glintersMap \ {name} /\ gset' = gset
              ELSE gset' = gset \ {name} /\ glintersMap' = glintersMap
    /\ gidx' = gidx + 1
    /\ UNCHANGED <<gcfg, galias, gout, gpc, dvars, mvars, lvars, rvars>>

DisableEnd ==
    /\ gpc = "disable" /\ gidx > Len(gcfg.Disable)
    /\ gpc' = "collect"
    /\ UNCHANGED <<gcfg, glintersMap, gset, galias, gidx, gout, dvars, mvars, lvars, rvars>>

\* the linters of resultLintersSet are returned
Collect ==
    /\ gpc = "collect"
    /\ gout' = ResultLintersSet
    /\ gpc' = "done"
    /\ UNCHANGED <<gcfg, glintersMap, gset, galias, gidx, dvars, mvars, lvars, rvars>>

NextRegistry ==
    \/ SwitchDisableAll
    \/ SwitchEnableAll
    \/ SwitchDefault
    \/ EnableSkip
    \/ EnableAdd
    \/ EnableEnd
    \/ DisableSkip
    \/ DisableDelete
    \/ DisableEnd
    \/ Collect

SpecRegistry == InitRegistry /\ [][NextRegistry]_vars

CatalogKeys == {"openapi", "no-cyrillic", "copyright", "probes"}

\* C17: with DisableAll set, whatever EnableAll is, getEnabledLinters returns
\* exactly the catalog linters the Enable list names, letter case aside, less
\* those the Disable list removes (its entries that are catalog keys).
C17_DisableAllStartsEmpty ==
    (gpc = "done" /\ gcfg.DisableAll) =>
        gout = ({ToLower(n) : n \in Elems(gcfg.Enable)} \cap CatalogKeys)
                    \ Elems(gcfg.Disable)

\* DisableAll and EnableAll both set, Enable names Copyright: copyright alone
C17_Witness ==
    /\ gpc = "done"
    /\ gcfg.DisableAll /\ gcfg.EnableAll
    /\ "Copyright" \in Elems(gcfg.Enable)
    /\ gout = {"copyright"}

\* C18: a catalog linter whose name equals a Disable entry up to letter case
\* is not among the linters getEnabledLinters returns.
C18_DisableIsCaseInsensitive ==
    gpc = "done" =>
        \A d \in Elems(gcfg.Disable) :
            ToLower(d) \in CatalogKeys => ToLower(d) \notin gout

-----------------------------------------------------------------------------
(* The rendered-templates hash cache over the calls of RunRender *)

\* call c has returned and had computed a hash
ReturnedWithHash(c) == rpc[c] = "done" /\ rhash[c] # NoHash

\* C19: a RunRender call that computed a hash has that hash in
\* renderedTemplatesHash when it returns, first-seen or not, and no step takes
\* a hash out of renderedTemplatesHash.
C19_CacheEntriesPermanent ==
    /\ [](\A c \in Callers : ReturnedWithHash(c) => rhash[c] \in cache)
    /\ [][cache \subseteq cache']_vars

\* one call returned an error after a missed Load, another found the same
\* hash and returned, and the hash is in the cache
C19_Witness ==
    \E c, d \in Callers :
        /\ c # d /\ rhash[c] = rhash[d]
        /\ ReturnedWithHash(c) /\ rfirst[c] /\ rerr[c] # Nil
        /\ ReturnedWithHash(d) /\ ~rfirst[d]
        /\ rhash[c] \in cache

\* C20: a hash is in renderedTemplatesHash only if some call with that hash
\* went through every document and returned without error.
C20_OnlySuccessfulCallsMark ==
    \A h \in cache :
        \E c \in Callers :
            /\ rhash[c] = h /\ rfirst[c]
            /\ rpc[c] = "done" /\ rerr[c] = Nil

-----------------------------------------------------------------------------
(* The catalog across getEnabledLinters *)

\* C21: when getEnabledLinters has returned, m.lintersMap holds the entries it
\* held when the call began, whatever DisableAll, EnableAll, Enable and
\* Disable are.
C21_CatalogUnchanged ==
    gpc = "done" => glintersMap = CatalogKeys

-----------------------------------------------------------------------------
(* The groups of Manager.Run *)

\* the goroutine of pair t has been started by g.Go
Started(t) == tpc[t] # "idle"

\* the goroutine of pair t has returned, its merge, if any, written and unlocked
Finished(t) ==
    /\ tpc[t] = "done"
    /\ t \in Contributors({t}) => \A n \in 1..Len(ret[t].errs) : Occurs(ret[t].errs[n], result)

\* C22: once a pair of a later outer iteration has been started, every pair
\* of every earlier outer iteration has returned with its merge finished, so
\* pairs of different outer iterations are never in flight together.
C22_GroupBarrier ==
    \A t, u \in Tasks :
        (GroupOf(t) < GroupOf(u) /\ Started(u)) => Finished(t)

\* two pairs of the second group are in flight, and in the first group one
\* pair failed and another merged its findings
C22_Witness ==
    \E t, u, v, w \in Tasks :
        /\ GroupOf(t) = 1 /\ GroupOf(u) = 1 /\ t # u
        /\ ret[t].err /\ Finished(t)
        /\ u \in Contributors({u}) /\ Finished(u)
        /\ GroupOf(v) = 2 /\ GroupOf(w) = 2 /\ v # w
        /\ tpc[v] = "running" /\ tpc[w] \in {"running", "spawned", "returned"}

====
